---- MODULE Spec2Model ----
(***************************************************************************)
(* Model of src/Print-logger.py: BambuLocalAPILogger, the status-to-       *)
(* lifecycle reducer (process_status_update), the field extractor, the     *)
(* filament resolver, the completed-job log, the summary and the polling   *)
(* loop (monitor_prints).                                                  *)
(*                                                                         *)
(* Raw JSON numbers are fixed-point with one decimal digit (tenths): the   *)
(* raw value 995 stands for 99.5, so that float() followed by int() is a   *)
(* real truncation.  Wall-clock times are whole seconds.                   *)
(***************************************************************************)
EXTENDS Integers, Sequences, FiniteSets, TLC

VARIABLES
    is_printing,            \* self.is_printing
    print_start_time,       \* self.print_start_time (None or a wall-clock time)
    current_gcode_file,     \* self.current_gcode_file
    last_progress,          \* self.last_progress
    print_start_gcode_time, \* self.print_start_gcode_time
    bed_temp,               \* self.bed_temp
    nozzle_temp,            \* self.nozzle_temp
    current_filament_type,  \* self.current_filament_type
    excel,                  \* rows of the Excel file self.excel_file
    now,                    \* the wall clock read by datetime.now()
    status,                 \* the status_data of the last process_status_update
    upd,                    \* the locals that call parsed from it (lines 429-436)
    pre,                    \* the tracked fields as they were when that call began
    out,                    \* what that call displayed: started / progress / ended
    n_records,              \* number of process_status_update calls so far
    raised,                 \* that call ended in an exception
    jobs,                   \* every PrintLog built by end_print_tracking, in order
    n_started,              \* number of start_print_tracking calls so far
    polling,                \* self.polling
    consecutive_errors,     \* the local consecutive_errors of monitor_prints
    message_count,          \* self.message_count
    pc,                     \* where run() is: "constructed", "monitoring", "done"
    fetched,                \* what get_printer_status returned to the last poll
    failed_run,             \* number of failed polls since the last good one
    n_polls,                \* number of iterations of the polling loop so far
    summary,                \* what display_summary printed
    twin                    \* a second logger, fed the same records with other
                            \* printer-reported start times

vars == <<is_printing, print_start_time, current_gcode_file, last_progress,
          print_start_gcode_time, bed_temp, nozzle_temp, current_filament_type,
          excel, now, status, upd, pre, out, n_records, raised, jobs, n_started,
          polling, consecutive_errors, message_count, pc, fetched, failed_run,
          n_polls, summary, twin>>

\* what the reducer and its log do not touch
around == <<polling, consecutive_errors, message_count, pc, fetched, failed_run,
            n_polls, summary, twin>>

----------------------------------------------------------------------------
(* Bounds of the model *)

\* number of status records fed to the reducer in one behaviour
MaxRecords == 3

\* number of status records fed in a behaviour of the filament specification
MaxFilamentRecords == 2

\* number of status records fed in a behaviour of the job-log specification
MaxLogRecords == 4

\* number of raw snapshots fed in a behaviour of the extraction specification
MaxRawRecords == 2

\* number of iterations of the polling loop in one behaviour
MaxPolls == 11

\* number of status records fed to the two loggers of the twin specification
MaxTwinRecords == 3

----------------------------------------------------------------------------
(* JSON values of a raw snapshot *)

Num(n)  == [t |-> "num",    n |-> n, s |-> ""]
Str(s)  == [t |-> "str",    n |-> 0, s |-> s]
Null    == [t |-> "null",   n |-> 0, s |-> ""]
Absent  == [t |-> "absent", n |-> 0, s |-> ""]

\* the empty dict {} / a dict without keys
EmptyDict == [k \in {} |-> Null]

\* d.get(k, default)
Get(d, k, default) == IF k \in DOMAIN d THEN d[k] ELSE default

\* decimal integer literals that occur as strings in the snapshots
DecimalTable ==
    [s \in {"0", "3", "6", "7", "99", "-1", "-5", "50"} |->
        CASE s = "0" -> 0 [] s = "3" -> 3 [] s = "6" -> 6 [] s = "7" -> 7
          [] s = "99" -> 99 [] s = "-1" -> -1 [] s = "-5" -> -5 [] s = "50" -> 50]

\* int(x) on a number in tenths: truncation toward zero
TruncTenths(x) == IF x >= 0 THEN x \div 10 ELSE -((-x) \div 10)

\* float(v) succeeds (no ValueError / TypeError)
FloatOk(v) == \/ v.t = "num"
              \/ v.t = "str" /\ v.s \in DOMAIN DecimalTable

\* float(v), in tenths
Float(v) == IF v.t = "num" THEN v.n ELSE 10 * DecimalTable[v.s]

\* int(v) succeeds: a number, or a string holding an integer literal
IntOk(v) == \/ v.t = "num"
            \/ v.t = "str" /\ v.s \in DOMAIN DecimalTable

\* int(v)
Int_(v) == IF v.t = "num" THEN TruncTenths(v.n) ELSE DecimalTable[v.s]

\* truthiness of a JSON value
Truthy(v) == \/ v.t = "num" /\ v.n # 0
             \/ v.t = "str" /\ v.s # ""

\* str(v) of a truthy value; a number prints its digits
StrOf(v) == IF v.t = "str" THEN v.s
            ELSE IF v.n % 10 = 0 /\ v.n >= 0 THEN ToString(v.n \div 10)
            ELSE "<number>"

\* str.upper() on the state strings that occur
Upper(s) == CASE s = "running"  -> "RUNNING"
              [] s = "paused"   -> "PAUSED"
              [] s = "finished" -> "FINISHED"
              [] OTHER          -> s

\* os.path.basename on the file names that occur
Basename(p) == CASE p = "/sdcard/cube.gcode" -> "cube.gcode"
                 [] p = "cache/benchy.3mf"   -> "benchy.3mf"
                 [] OTHER                    -> p

----------------------------------------------------------------------------
(* Field extractor *)

RECURSIVE safe_get_numeric(_, _, _)
\* first candidate key that is present and coercible by float()
safe_get_numeric(data, keys, default) ==
    IF keys = <<>> THEN default
    ELSE IF Head(keys) \in DOMAIN data /\ FloatOk(data[Head(keys)])
         THEN Float(data[Head(keys)])
         ELSE safe_get_numeric(data, Tail(keys), default)

RECURSIVE safe_get_string(_, _, _)
\* first candidate key that is present with a truthy value
safe_get_string(data, keys, default) ==
    IF keys = <<>> THEN default
    ELSE IF Head(keys) \in DOMAIN data /\ Truthy(data[Head(keys)])
         THEN StrOf(data[Head(keys)])
         ELSE safe_get_string(data, Tail(keys), default)

\* seq[i] with Python's index rules succeeds (no IndexError)
IndexOk(seq, i) == -Len(seq) <= i /\ i < Len(seq)

\* seq[i] with Python's index rules: a negative i counts from the end
Index(seq, i) == IF i >= 0 THEN seq[i + 1] ELSE seq[Len(seq) + i + 1]

\* bool(ams_data): a mapping with at least one key, or a non-empty string
AmsTruthy(ams_data) ==
    \/ /\ ams_data.kind = "map"
       /\ (ams_data.has_ams \/ ams_data.tray_now.t # "absent")
    \/ ams_data.kind = "text"

\* trays[tray_index].get("tray_type", "Unknown")
TrayType(slot) == IF slot.has_type THEN slot.tray_type ELSE "Unknown"

\* the lookup of lines 250-254, once tray_num is known
TrayLookup(ams_list, ams_index, tray_index) ==
    IF ams_index < Len(ams_list)
    THEN IF ~IndexOk(ams_list, ams_index)
         THEN "Unknown"                       \* IndexError, caught at line 257
         ELSE LET trays == Index(ams_list, ams_index).tray
              IN  IF tray_index < Len(trays)
                  THEN TrayType(Index(trays, tray_index))
                  ELSE "Unknown"
    ELSE "Unknown"

extract_filament_info(ams_data, print_data) ==
    LET filament_direct ==
            safe_get_string(print_data, <<"filament_type", "material", "filament">>, "")
    IN  IF filament_direct # "" THEN filament_direct
        ELSE IF AmsTruthy(ams_data) /\ ams_data.has_ams
        THEN LET current_tray == IF ams_data.tray_now.t = "absent"
                                 THEN Str("0") ELSE ams_data.tray_now
             IN  IF ~IntOk(current_tray) THEN "Unknown"
                 ELSE LET tray_num == Int_(current_tray)
                      IN  TrayLookup(ams_data.ams, tray_num \div 4, tray_num % 4)
        ELSE "Unknown"

\* `not status_data`: the snapshot is the empty mapping
StatusEmpty(status_data) ==
    /\ status_data.scope = "top"
    /\ DOMAIN status_data.data = {}
    /\ status_data.ams.kind = "absent"

\* status_data.get('print', status_data) is a mapping
PrintIsMapping(status_data) == status_data.scope \in {"top", "print"}

\* extract_print_data raises: `key in data` (line 217) is a TypeError on None,
\* print_data.get (line 208) an AttributeError on a string
ExtractRaises(status_data) ==
    ~StatusEmpty(status_data) /\ ~PrintIsMapping(status_data)

extract_print_data(status_data) ==
    IF StatusEmpty(status_data) THEN EmptyDict
    ELSE LET print_data == status_data.data
         IN  [progress       |-> safe_get_numeric(print_data, <<"mc_percent", "progress", "percent">>, 0),
              state          |-> safe_get_string(print_data, <<"gcode_state", "state", "status">>, ""),
              gcode_file     |-> safe_get_string(print_data, <<"gcode_file", "filename", "file">>, ""),
              bed_temp       |-> safe_get_numeric(print_data, <<"bed_temper", "bed_temp", "bed_temperature">>, 0),
              nozzle_temp    |-> safe_get_numeric(print_data, <<"nozzle_temper", "nozzle_temp", "nozzle_temperature">>, 0),
              remaining_time |-> safe_get_numeric(print_data, <<"mc_remaining_time", "remaining_time", "time_remaining">>, 0),
              start_time     |-> safe_get_numeric(print_data, <<"gcode_start_time", "start_time", "print_start_time">>, 0),
              filament_type  |-> extract_filament_info(status_data.ams, print_data)]

----------------------------------------------------------------------------
(* Lifecycle reducer *)

poll_interval == 3

\* line 394
max_errors == 10

\* `if status:` (line 401): None and the empty mapping are falsy
StatusTruthy(fetch) == fetch # <<>> /\ ~StatusEmpty(fetch[1])

NoneTime   == [some |-> FALSE, at |-> 0]
SomeTime(t) == [some |-> TRUE, at |-> t]

StartedMsg      == [ev |-> "PRINT STARTED", percent |-> 0, status_text |-> ""]
ProgressMsg(p)  == [ev |-> "Progress",      percent |-> p, status_text |-> ""]
EndedMsg(text)  == [ev |-> "PRINT ENDED",   percent |-> 0, status_text |-> text]

\* StartCondition without the is_printing test: a running print starts again
StartConditionWhileActive(printing, state, progress) ==
    state \in {"RUNNING", "PRINTING"} /\ progress > 0

\* StartCondition with the progress test off by one: a job at 0 % starts too
StartConditionFromZero(printing, state, progress) ==
    ~printing /\ state \in {"RUNNING", "PRINTING"} /\ progress >= 0

\* line 449: a print is starting
StartCondition(printing, state, progress) ==
    ~printing /\ state \in {"RUNNING", "PRINTING"} /\ progress > 0

\* EndCondition taking every state but the running ones for an end
EndConditionNotRunning(printing, state, progress) ==
    printing /\ (progress >= 100 \/ state \notin {"RUNNING", "PRINTING"})

\* EndCondition with the progress test off by one: exactly 100 % does not end
EndConditionAbove100(printing, state, progress) ==
    printing /\ (progress > 100
                 \/ state \in {"FINISH", "FINISHED", "FAILED", "PAUSED", "STOPPED"})

\* line 453: the tracked print is completed or failed
EndCondition(printing, state, progress) ==
    printing /\ (progress >= 100
                 \/ state \in {"FINISH", "FINISHED", "FAILED", "PAUSED", "STOPPED"})

\* Failed without STOPPED
FailedOnly(state) == state = "FAILED"

\* line 454
Failed(state) == state \in {"FAILED", "STOPPED"}

\* ProgressChanged without the is_printing test: shown in idle as well
ProgressChangedUnguarded(printing, progress, last) == progress # last

\* ProgressChanged without the comparison: every record of a session is shown
ProgressAlways(printing, progress, last) == printing

\* line 458: the progress display is refreshed
ProgressChanged(printing, progress, last) == printing /\ progress # last

\* line 463: the record carries better filament information
BetterFilament(filament_type) == filament_type # "Unknown"

\* DurationMinutes rounding to the nearest minute
DurationMinutesRounded(start, end) == (end - start + 30) \div 60

\* line 304: int(duration.total_seconds() / 60)
DurationMinutes(start, end) ==
    IF end >= start THEN (end - start) \div 60 ELSE -((start - end) \div 60)

\* (duration_minutes / 60.0) * 10.0, kept as an exact fraction of grams
estimate_filament_usage(duration_minutes) ==
    [num |-> duration_minutes * 10, den |-> 60]

format_duration(minutes) ==
    LET hours == minutes \div 60
        mins  == minutes % 60
    IN  IF hours > 0 THEN ToString(hours) \o "h " \o ToString(mins) \o "m"
        ELSE ToString(mins) \o "m"

\* the PrintLog built at lines 301-329 from the tracked fields `self`
PrintLog(self, end_time, failed) ==
    LET start_time       == self.print_start_time.at
        duration_minutes == DurationMinutes(start_time, end_time)
    IN  [start_time          |-> start_time,
         end_time            |-> end_time,
         print_duration      |-> format_duration(duration_minutes),
         duration_minutes    |-> duration_minutes,
         gcode_file          |-> IF self.current_gcode_file # ""
                                 THEN Basename(self.current_gcode_file) ELSE "Unknown",
         filament_type       |-> IF self.current_filament_type # ""
                                 THEN self.current_filament_type ELSE "Unknown",
         filament_used_grams |-> estimate_filament_usage(duration_minutes),
         bed_temp            |-> self.bed_temp,
         nozzle_temp         |-> self.nozzle_temp,
         notes               |-> IF failed THEN "FAILED PRINT" ELSE ""]

RECURSIVE SumMinutes(_)
\* df['Duration (min)'].sum()
SumMinutes(rows) ==
    IF rows = <<>> THEN 0 ELSE Head(rows).duration_minutes + SumMinutes(Tail(rows))

RECURSIVE SumGrams(_)
\* df['Filament Used (g)'].sum(), in sixtieths of a gram
SumGrams(rows) ==
    IF rows = <<>> THEN 0 ELSE Head(rows).filament_used_grams.num + SumGrams(Tail(rows))

\* nothing was printed by display_summary
NoSummary == [shown |-> FALSE, total_prints |-> 0, total_minutes |-> 0,
              total_filament |-> 0]

\* what display_summary prints for the file (lines 504-515); read_ok:
\* pd.read_excel succeeded
display_summary(file, read_ok) ==
    IF read_ok /\ Len(file) > 0
    THEN [shown |-> TRUE, total_prints |-> Len(file),
          total_minutes |-> SumMinutes(file), total_filament |-> SumGrams(file)]
    ELSE NoSummary

\* the file after save_to_excel(log_entry); read_ok: pd.read_excel succeeded,
\* write_ok: df.to_excel succeeded (a failure is printed and swallowed)
save_to_excel(file, log_entry, read_ok, write_ok) ==
    LET df == IF read_ok THEN file ELSE <<>>
    IN  IF write_ok THEN Append(df, log_entry) ELSE file

\* the locals of process_status_update, lines 427-436
Locals(status_data) ==
    LET print_data == extract_print_data(status_data)
    IN  [progress       |-> TruncTenths(Get(print_data, "progress", 0)),
         state          |-> Upper(Get(print_data, "state", "")),
         gcode_file     |-> Get(print_data, "gcode_file", ""),
         bed_temp       |-> Get(print_data, "bed_temp", 0),
         nozzle_temp    |-> Get(print_data, "nozzle_temp", 0),
         remaining_time |-> TruncTenths(Get(print_data, "remaining_time", 0)),
         filament_type  |-> Get(print_data, "filament_type", "Unknown"),
         start_time     |-> TruncTenths(Get(print_data, "start_time", 0))]

\* the tracked fields of the logger
Self ==
    [is_printing            |-> is_printing,
     print_start_time       |-> print_start_time,
     current_gcode_file     |-> current_gcode_file,
     last_progress          |-> last_progress,
     print_start_gcode_time |-> print_start_gcode_time,
     bed_temp               |-> bed_temp,
     nozzle_temp            |-> nozzle_temp,
     current_filament_type  |-> current_filament_type]

\* StartedAt taking the printer-reported start time for the time of the start
StartedAtPrinterTime(t, gcode_start_time) == SomeTime(gcode_start_time)

\* line 276: self.print_start_time = datetime.now()
StartedAt(t, gcode_start_time) == SomeTime(t)

\* StoreTemperatures done after the lifecycle branches: nothing stored yet
StoreTemperaturesLate(self, l) == self

\* lines 439-440: the temperatures of the record are stored
StoreTemperatures(self, l) ==
    [self EXCEPT !.bed_temp = l.bed_temp, !.nozzle_temp = l.nozzle_temp]

\* lines 275-279: start_print_tracking at wall-clock time t
start_print_tracking(self, l, t) ==
    [self EXCEPT !.is_printing = TRUE,
                 !.print_start_time = StartedAt(t, l.start_time),
                 !.current_gcode_file = l.gcode_file,
                 !.current_filament_type = l.filament_type,
                 !.print_start_gcode_time = l.start_time]

\* Elif written as a second `if`: the branch is tried after a start as well
ElifAsIf(taken, condition) == condition

\* line 453, `elif`: the branch is tried only when the one before was not taken
Elif(taken, condition) == ~taken /\ condition

\* lines 438-464 on the tracked fields `self`, for the locals l of a record
\* handled at wall-clock time t: the fields afterwards, what was displayed,
\* whether a print was started and the PrintLog handed to save_to_excel
Reduce(self, l, t) ==
    LET measured == StoreTemperatures(self, l)
        starting == StartCondition(self.is_printing, l.state, l.progress)
        begun    == IF starting THEN start_print_tracking(measured, l, t) ELSE measured
        ending   == /\ Elif(starting,
                            EndCondition(begun.is_printing, l.state, l.progress))
                    /\ begun.is_printing /\ begun.print_start_time.some  \* line 298
        printing == IF ending THEN FALSE ELSE begun.is_printing
        changed  == ProgressChanged(printing, l.progress, self.last_progress)
    IN  [self |->
            [begun EXCEPT
                !.is_printing = printing,
                !.last_progress = IF changed THEN l.progress ELSE self.last_progress,
                !.bed_temp = l.bed_temp,
                !.nozzle_temp = l.nozzle_temp,
                !.current_filament_type = IF BetterFilament(l.filament_type)
                                          THEN l.filament_type
                                          ELSE begun.current_filament_type],
         shown |->
            (IF starting THEN <<StartedMsg>> ELSE <<>>)
            \o (IF ending
                THEN <<EndedMsg(IF Failed(l.state) THEN "FAILED" ELSE "COMPLETED")>>
                ELSE <<>>)
            \o (IF changed THEN <<ProgressMsg(l.progress)>> ELSE <<>>),
         started   |-> starting,
         log_entry |-> IF ending THEN <<PrintLog(begun, t, Failed(l.state))>>
                       ELSE <<>>]

\* the tracked fields as a call finds them, kept for the properties
Before ==
    [is_printing           |-> is_printing,
     last_progress         |-> last_progress,
     current_filament_type |-> current_filament_type,
     excel                 |-> excel]

\* one call of process_status_update(status_data), made dt seconds after the
\* previous one; io: the <<read_ok, write_ok>> outcomes the file system may
\* give.  An exception of line 427 leaves the call before anything is stored.
process_status_update(status_data, dt, io) ==
    /\ now' = now + dt
    /\ status' = status_data
    /\ pre' = Before
    /\ n_records' = n_records + 1
    /\ raised' = ExtractRaises(status_data)
    /\ IF ExtractRaises(status_data)
       THEN /\ out' = <<>>
            /\ UNCHANGED <<is_printing, print_start_time, current_gcode_file,
                           last_progress, print_start_gcode_time, bed_temp,
                           nozzle_temp, current_filament_type, excel, upd, jobs,
                           n_started>>
       ELSE \E l \in {Locals(status_data)} :
            \E r \in {Reduce(Self, l, now + dt)} :
                /\ is_printing' = r.self.is_printing
                /\ print_start_time' = r.self.print_start_time
                /\ current_gcode_file' = r.self.current_gcode_file
                /\ last_progress' = r.self.last_progress
                /\ print_start_gcode_time' = r.self.print_start_gcode_time
                /\ bed_temp' = r.self.bed_temp
                /\ nozzle_temp' = r.self.nozzle_temp
                /\ current_filament_type' = r.self.current_filament_type
                /\ excel' \in IF r.log_entry # <<>>
                              THEN {save_to_excel(excel, r.log_entry[1], f[1], f[2]) :
                                        f \in io}
                              ELSE {excel}
                /\ jobs' = jobs \o r.log_entry
                /\ n_started' = n_started + (IF r.started THEN 1 ELSE 0)
                /\ upd' = l
                /\ out' = r.shown

\* process_status_update called on the logger as constructed, outside run()
Fed(status_data, dt, io) ==
    /\ process_status_update(status_data, dt, io)
    /\ UNCHANGED around

----------------------------------------------------------------------------
(* Snapshots fed to the reducer *)

Slot(type) == [has_type |-> TRUE, tray_type |-> type]
NoTypeSlot == [has_type |-> FALSE, tray_type |-> ""]
Bank(trays) == [tray |-> trays]

NoAms == [kind |-> "absent", has_ams |-> FALSE, tray_now |-> Absent, ams |-> <<>>]
Ams(tray_now, banks) ==
    [kind |-> "map", has_ams |-> TRUE, tray_now |-> tray_now, ams |-> banks]

\* a magazine bank of four slots; the third slot is empty (declared type "")
BankA == Bank(<<Slot("PLA"), Slot("PETG"), Slot(""), Slot("ABS")>>)
BankB == Bank(<<Slot("TPU"), Slot("PA"), Slot("PC"), Slot("ASA")>>)

\* raw state strings, as printers report them (any case, or none)
RawStates == {"RUNNING", "PRINTING", "running", "FINISH", "FINISHED", "FAILED",
              "PAUSED", "STOPPED", "IDLE", "PREPARE", ""}

\* raw progress values, in tenths of a percent
RawProgress == {-50, 0, 5, 500, 990, 1000, 1500}

\* the rest of a snapshot: where the fields sit and what accompanies them
\*   "lan"   : nested under 'print', firmware key names, magazine slot 0 (PLA)
\*   "empty" : the same, the active magazine slot has an empty declared type
\*   "flat"  : top-level fields under the alternative key names, direct filament
\*   "bare"  : top-level state and progress only
Profiles == {"lan", "empty", "flat", "bare"}

\* the records of the lifecycle specification
LifecycleProfiles == {"lan", "bare"}

Snapshot(st, p, prof) ==
    CASE prof = "lan" ->
           [scope |-> "print",
            data  |-> [k \in {"gcode_state", "mc_percent", "gcode_file", "bed_temper",
                              "nozzle_temper", "mc_remaining_time", "gcode_start_time"} |->
                        CASE k = "gcode_state" -> Str(st)
                          [] k = "mc_percent" -> Num(p)
                          [] k = "gcode_file" -> Str("/sdcard/cube.gcode")
                          [] k = "bed_temper" -> Num(600)
                          [] k = "nozzle_temper" -> Num(2155)
                          [] k = "mc_remaining_time" -> Num(420)
                          [] k = "gcode_start_time" -> Str("7")],
            ams   |-> Ams(Str("0"), <<BankA>>)]
      [] prof = "empty" ->
           [scope |-> "print",
            data  |-> [k \in {"gcode_state", "mc_percent", "gcode_file", "bed_temper",
                              "nozzle_temper"} |->
                        CASE k = "gcode_state" -> Str(st)
                          [] k = "mc_percent" -> Num(p)
                          [] k = "gcode_file" -> Str("/sdcard/cube.gcode")
                          [] k = "bed_temper" -> Num(550)
                          [] k = "nozzle_temper" -> Null],
            ams   |-> Ams(Num(20), <<BankA>>)]
      [] prof = "flat" ->
           [scope |-> "top",
            data  |-> [k \in {"state", "progress", "filename", "bed_temp", "material"} |->
                        CASE k = "state" -> Str(st)
                          [] k = "progress" -> Num(p)
                          [] k = "filename" -> Str("cache/benchy.3mf")
                          [] k = "bed_temp" -> Str("50")
                          [] k = "material" -> Str("PETG")],
            ams   |-> NoAms]
      [] prof = "bare" ->
           [scope |-> "top",
            data  |-> [k \in {"status", "percent"} |->
                        IF k = "status" THEN Str(st) ELSE Num(p)],
            ams   |-> NoAms]

Snapshots == {Snapshot(st, p, prof) : st \in RawStates, p \in RawProgress, prof \in LifecycleProfiles}

\* a bank that lost two of its slots; its second slot declares no type
BankShort == Bank(<<Slot("PLA"), NoTypeSlot>>)

\* the active-slot index as magazines report it: absent, a decimal string, a
\* number (2.5), null, or a string that is no number
TrayNows == {Absent, Str("0"), Str("3"), Str("6"), Str("7"), Str("99"),
             Str("-1"), Str("-5"), Str("x"), Num(25), Null}

Magazines ==
    {NoAms,
     [kind |-> "map", has_ams |-> FALSE, tray_now |-> Str("0"), ams |-> <<>>]}
    \cup {Ams(tn, banks) : tn \in TrayNows,
                           banks \in {<<>>, <<BankA>>, <<BankA, BankB>>, <<BankShort>>}}

\* a snapshot at 50 % whose filament fields are `direct` (the value under
\* 'filament_type', or Absent) and the magazine `ams`
FilamentSnapshot(st, direct, ams) ==
    [scope |-> "print",
     data  |-> IF direct.t = "absent"
               THEN [k \in {"gcode_state", "mc_percent"} |->
                        IF k = "gcode_state" THEN Str(st) ELSE Num(500)]
               ELSE [k \in {"gcode_state", "mc_percent", "filament_type"} |->
                        CASE k = "gcode_state" -> Str(st)
                          [] k = "mc_percent" -> Num(500)
                          [] k = "filament_type" -> direct],
     ams   |-> ams]

FilamentSnapshots ==
    {FilamentSnapshot(st, direct, ams) :
        st \in {"RUNNING", "FINISHED"},
        direct \in {Absent, Str(""), Str("PETG")},
        ams \in Magazines}

\* the end-to-end scenario of four records, progress in tenths of a percent
Scenario == <<[state |-> "RUNNING",  progress |-> 50],
              [state |-> "RUNNING",  progress |-> 500],
              [state |-> "RUNNING",  progress |-> 990],
              [state |-> "FINISHED", progress |-> 1000]>>

\* a row left in the Excel file by an earlier run
OldRow == [start_time |-> -600, end_time |-> 0, print_duration |-> "10m",
           duration_minutes |-> 10, gcode_file |-> "old.gcode", filament_type |-> "PLA",
           filament_used_grams |-> estimate_filament_usage(10), bed_temp |-> 600,
           nozzle_temp |-> 2150, notes |-> ""]

\* 'ams': null, and 'ams': "offline" (no mapping; the string does not hold "ams")
NullAms == [kind |-> "null", has_ams |-> FALSE, tray_now |-> Absent, ams |-> <<>>]
TextAms == [kind |-> "text", has_ams |-> FALSE, tray_now |-> Absent, ams |-> <<>>]

\* a mapping with the given values under two progress keys and two state
\* keys; a key whose value is Absent is left out
RawData(mc_percent, progress, gcode_state, state) ==
    LET all == [k \in {"mc_percent", "progress", "gcode_state", "state"} |->
                   CASE k = "mc_percent"  -> mc_percent
                     [] k = "progress"    -> progress
                     [] k = "gcode_state" -> gcode_state
                     [] k = "state"       -> state]
    IN  [k \in {x \in DOMAIN all : all[x].t # "absent"} |-> all[k]]

\* raw snapshots as a printer or a proxy may send them: keys missing, null
\* or non-numeric values, fields nested under 'print' or not, and an 'ams'
\* or a 'print' entry that is no mapping ({"print": null}, {"print": "offline"})
RawSnapshots ==
    {[scope |-> sc, data |-> RawData(mp, pr, gs, st), ams |-> a] :
        sc \in {"top", "print"},
        mp \in {Absent, Null, Str("x"), Num(500)},
        pr \in {Absent, Str("50")},
        gs \in {Absent, Str(""), Str("RUNNING")},
        st \in {Absent, Str("FINISHED")},
        a  \in {NoAms, NullAms, TextAms}}
    \cup {[scope |-> sc, data |-> EmptyDict, ams |-> NoAms] :
            sc \in {"print_null", "print_text"}}

\* the decoded bodies that the polling-loop specification fetches: {}, a
\* mapping without any field of interest ({"uptime": 5}), {"print": null},
\* and a running print at 50 %
EmptyMapping == [scope |-> "top", data |-> EmptyDict, ams |-> NoAms]
Unusable     == [scope |-> "top", data |-> [k \in {"uptime"} |-> Num(50)], ams |-> NoAms]
BrokenPrint  == [scope |-> "print_null", data |-> EmptyDict, ams |-> NoAms]
LoopSnapshots == {EmptyMapping, Unusable, BrokenPrint, Snapshot("RUNNING", 500, "bare")}

\* what get_printer_status returns: None (<<>>, lines 180-187) or the decoded
\* body of a 200 answer (line 170)
Fetches == {<<>>} \cup {<<status_data>> : status_data \in LoopSnapshots}

\* what a record may carry under 'gcode_start_time': a decimal string, a
\* number (50.0), or null
StartEpochs == {Str("7"), Num(500), Null}

\* the snapshot with another printer-reported start time
WithStartEpoch(status_data, epoch) ==
    [status_data EXCEPT !.data = [@ EXCEPT !["gcode_start_time"] = epoch]]

\* the records of the twin specification, but for their start time
TwinSnapshots == {Snapshot(st, 500, "lan") : st \in {"RUNNING", "FINISHED"}}

\* the Excel file that the job-log specification starts with
InitialLog == <<OldRow>>

\* the records of the job-log specification
LogSnapshots == {Snapshot(st, 500, "lan") : st \in {"RUNNING", "FINISHED", "FAILED"}}

\* by how much datetime.now() moved between two calls: the poll interval, 90
\* seconds (a poll that waited for the printer), or back by 90 seconds (the
\* local clock was set back)
Ticks == {poll_interval, 90, -90}

\* the Excel file is read and written without error
FileOk == {<<TRUE, TRUE>>}

\* reading the file, or writing it, may fail (lines 361 and 384)
FileAny == BOOLEAN \X BOOLEAN

----------------------------------------------------------------------------
(* The state machine *)

\* __init__ (lines 57-75); init_excel_file creates the file or keeps an
\* existing one, whose rows are `file`
Constructed(file) ==
    /\ is_printing = FALSE
    /\ print_start_time = NoneTime
    /\ current_gcode_file = ""
    /\ last_progress = 0
    /\ print_start_gcode_time = 0
    /\ bed_temp = 0
    /\ nozzle_temp = 0
    /\ current_filament_type = ""
    /\ excel = file
    /\ now = 0
    /\ status = Snapshot("", 0, "bare")
    /\ upd = Locals(Snapshot("", 0, "bare"))
    /\ pre = [is_printing |-> FALSE, last_progress |-> 0,
              current_filament_type |-> "", excel |-> file]
    /\ out = <<>>
    /\ n_records = 0
    /\ raised = FALSE
    /\ jobs = <<>>
    /\ n_started = 0
    /\ polling = FALSE
    /\ consecutive_errors = 0
    /\ message_count = 0
    /\ pc = "constructed"
    /\ fetched = <<>>
    /\ failed_run = 0
    /\ n_polls = 0
    /\ summary = NoSummary
    /\ twin = [self |-> [is_printing |-> FALSE, print_start_time |-> NoneTime,
                         current_gcode_file |-> "", last_progress |-> 0,
                         print_start_gcode_time |-> 0, bed_temp |-> 0,
                         nozzle_temp |-> 0, current_filament_type |-> ""],
               shown |-> <<>>, jobs |-> <<>>]

Init == Constructed(<<>>)

\* the reducer handles the next status record
ProcessStatusUpdate ==
    /\ n_records < MaxRecords
    /\ \E status_data \in Snapshots :
           Fed(status_data, poll_interval, FileAny)

Next == ProcessStatusUpdate

Spec == Init /\ [][Next]_vars

\* the reducer handles a record of the filament specification
ProcessFilamentUpdate ==
    /\ n_records < MaxFilamentRecords
    /\ \E status_data \in FilamentSnapshots :
           Fed(status_data, poll_interval, FileOk)

NextFilament == ProcessFilamentUpdate

SpecFilament == Init /\ [][NextFilament]_vars

\* the reducer handles the next record of the scenario, 3 seconds after the
\* previous one
ProcessScenarioUpdate ==
    /\ n_records < Len(Scenario)
    /\ \E prof \in Profiles :
           Fed(Snapshot(Scenario[n_records + 1].state,
                        Scenario[n_records + 1].progress, prof),
               poll_interval, FileAny)

NextScenario == ProcessScenarioUpdate

SpecScenario == Init /\ [][NextScenario]_vars

\* the logger starts with an Excel file left by an earlier run
InitLog == Constructed(InitialLog)

\* the reducer handles a record of the job-log specification
ProcessLogUpdate ==
    /\ pc = "constructed"
    /\ n_records < MaxLogRecords
    /\ \E status_data \in LogSnapshots, dt \in Ticks :
           Fed(status_data, dt, FileAny)

\* run() is interrupted (line 492): the summary is displayed and run() returns
DisplaySummary ==
    /\ pc = "constructed"
    /\ \E read_ok \in BOOLEAN : summary' = display_summary(excel, read_ok)
    /\ pc' = "done"
    /\ polling' = FALSE
    /\ UNCHANGED <<is_printing, print_start_time, current_gcode_file, last_progress,
                   print_start_gcode_time, bed_temp, nozzle_temp,
                   current_filament_type, excel, now, status, upd, pre, out,
                   n_records, raised, jobs, n_started, consecutive_errors,
                   message_count, fetched, failed_run, n_polls, twin>>

NextLog == ProcessLogUpdate \/ DisplaySummary

SpecLog == InitLog /\ [][NextLog]_vars

\* the reducer handles a raw snapshot of the extraction specification
ProcessRawUpdate ==
    /\ n_records < MaxRawRecords
    /\ \E status_data \in RawSnapshots :
           Fed(status_data, poll_interval, FileOk)

NextExtract == ProcessRawUpdate

SpecExtract == Init /\ [][NextExtract]_vars

\* run() (lines 471-491): the connection test, then the polling flag is set
\* and monitor_prints entered
Run ==
    /\ pc = "constructed"
    /\ \E connected \in BOOLEAN :
           IF connected
           THEN polling' = TRUE /\ consecutive_errors' = 0 /\ pc' = "monitoring"
           ELSE polling' = FALSE /\ consecutive_errors' = consecutive_errors
                /\ pc' = "done"
    /\ UNCHANGED <<is_printing, print_start_time, current_gcode_file, last_progress,
                   print_start_gcode_time, bed_temp, nozzle_temp,
                   current_filament_type, excel, now, status, upd, pre, out,
                   n_records, raised, jobs, n_started, message_count, fetched,
                   failed_run, n_polls, summary, twin>>

\* StoppedWhile clearing the flag: the session is dropped when the loop stops
StoppedWhileCleared(printing) == FALSE

\* is_printing after the loop was left (lines 407-409, 416-417) and run()
\* returned (lines 498-499): only self.polling is cleared
StoppedWhile(printing) == printing

\* the loop variables after an iteration that left the counter at `errors`;
\* broke: the iteration hit a break; failed: it handled no status or raised
Iterated(errors, broke, counted, failed) ==
    /\ consecutive_errors' = errors
    /\ pc' = IF broke THEN "done" ELSE "monitoring"
    /\ polling' = ~broke                                      \* line 499
    /\ message_count' = message_count + (IF counted THEN 1 ELSE 0)
    /\ failed_run' = IF failed THEN failed_run + 1 ELSE 0
    /\ n_polls' = n_polls + 1
    /\ UNCHANGED <<summary, twin>>

\* one iteration of the loop of monitor_prints (lines 396-423)
Poll ==
    /\ pc = "monitoring" /\ polling
    /\ n_polls < MaxPolls
    /\ \E fetch \in Fetches :
        /\ fetched' = fetch
        /\ IF StatusTruthy(fetch)
           THEN /\ process_status_update(fetch[1], poll_interval, FileOk)
                /\ IF ExtractRaises(fetch[1])
                   THEN Iterated(0 + 1, 0 + 1 >= max_errors, FALSE, TRUE)
                   ELSE Iterated(0, FALSE, TRUE, FALSE)
           ELSE /\ now' = now + poll_interval
                /\ Iterated(consecutive_errors + 1,
                            consecutive_errors + 1 >= max_errors,
                            consecutive_errors + 1 < max_errors, TRUE)
                /\ is_printing' = IF consecutive_errors + 1 >= max_errors
                                  THEN StoppedWhile(is_printing) ELSE is_printing
                /\ UNCHANGED <<print_start_time, current_gcode_file,
                               last_progress, print_start_gcode_time, bed_temp,
                               nozzle_temp, current_filament_type, excel, status,
                               upd, pre, out, n_records, raised, jobs, n_started>>

\* KeyboardInterrupt while the loop runs (lines 416-417): the loop is left and
\* run() returns through its finally clause
Interrupt ==
    /\ pc = "monitoring" /\ polling
    /\ pc' = "done"
    /\ polling' = FALSE
    /\ is_printing' = StoppedWhile(is_printing)
    /\ UNCHANGED <<print_start_time, current_gcode_file, last_progress,
                   print_start_gcode_time, bed_temp, nozzle_temp,
                   current_filament_type, excel, now, status, upd, pre, out,
                   n_records, raised, jobs, n_started, consecutive_errors,
                   message_count, fetched, failed_run, n_polls, summary, twin>>

NextLoop == Run \/ Poll \/ Interrupt

SpecLoop == Init /\ [][NextLoop]_vars

\* the second logger handles the locals l at wall-clock time t
TwinStep(tw, l, t) ==
    LET r == Reduce(tw.self, l, t)
    IN  [self |-> r.self, shown |-> r.shown, jobs |-> tw.jobs \o r.log_entry]

\* both loggers handle the same record at the same wall-clock time; only the
\* printer-reported start time of the record may differ between the two
ProcessTwinUpdate ==
    /\ n_records < MaxTwinRecords
    /\ \E status_data \in TwinSnapshots, a \in StartEpochs, b \in StartEpochs :
           /\ process_status_update(WithStartEpoch(status_data, a), poll_interval,
                                    FileOk)
           /\ \E l \in {Locals(WithStartEpoch(status_data, b))} :
                  twin' = TwinStep(twin, l, now + poll_interval)
    /\ UNCHANGED <<polling, consecutive_errors, message_count, pc, fetched,
                   failed_run, n_polls, summary>>

NextTwin == ProcessTwinUpdate

SpecTwin == Init /\ [][NextTwin]_vars

----------------------------------------------------------------------------
(* Vocabulary of the properties *)

\* the canonical state of a record: the reducer's vocabularies of lines 449
\* and 453, anything else is UNKNOWN
Canonical(state) ==
    CASE state \in {"RUNNING", "PRINTING"} -> "RUNNING"
      [] state \in {"FINISH", "FINISHED"}  -> "FINISHED"
      [] state = "FAILED"                  -> "FAILED"
      [] state = "PAUSED"                  -> "PAUSED"
      [] state = "STOPPED"                 -> "STOPPED"
      [] state = "IDLE"                    -> "IDLE"
      [] OTHER                             -> "UNKNOWN"

IsStart(e)    == e.ev = "PRINT STARTED"
IsProgress(e) == e.ev = "Progress"
IsEnd(e)      == e.ev = "PRINT ENDED"

Starts(shown)     == Len(SelectSeq(shown, IsStart))
Progresses(shown) == Len(SelectSeq(shown, IsProgress))
Ends(shown)       == Len(SelectSeq(shown, IsEnd))

\* a record has been processed, and a session was active when it arrived
WasActive == n_records > 0 /\ pre.is_printing

\* a record has been processed, and the reducer was idle when it arrived
WasIdle == n_records > 0 /\ ~pre.is_printing

\* the end condition as the specification words it
SpecEndCondition(l) ==
    l.progress >= 100 \/ Canonical(l.state) \in {"FINISHED", "FAILED", "STOPPED"}

\* a filament type that names a material
Known(type) == type # "" /\ type # "Unknown"

----------------------------------------------------------------------------
(* C1 *)

\* C1: while a session is active, a record whose state is PAUSED and whose
\* progress is below 100 emits no EndEvent, writes no completed-job row and
\* leaves the session active.
C1_PausedDoesNotEnd ==
    (WasActive /\ Canonical(upd.state) = "PAUSED" /\ upd.progress < 100)
        => (Ends(out) = 0 /\ excel = pre.excel /\ is_printing)

----------------------------------------------------------------------------
(* C2 *)

\* C2 as stated: while a session is active, a record with progress = 100
\* yields exactly one EndEvent, classified COMPLETED whatever its state.
C2_AlwaysCompletedAt100 ==
    (WasActive /\ upd.progress = 100) => out = <<EndedMsg("COMPLETED")>>

\* C2 (amended): while a session is active, a record with progress = 100
\* yields exactly one EndEvent and nothing else; it is classified FAILED when
\* the record's state is FAILED or STOPPED and COMPLETED for every other state.
C2_OneEndAt100 ==
    (WasActive /\ upd.progress = 100)
        => /\ Ends(out) = 1 /\ Len(out) = 1
           /\ ~is_printing
           /\ out[1].status_text =
                  IF Canonical(upd.state) \in {"FAILED", "STOPPED"}
                  THEN "FAILED" ELSE "COMPLETED"

C2_Witness ==
    /\ WasActive /\ upd.progress = 100 /\ upd.state = "STOPPED"
    /\ out = <<EndedMsg("FAILED")>>

----------------------------------------------------------------------------
(* C3 *)

\* C3: when a record that satisfies the end condition ends the active session
\* and the identical record follows, the second one is a no-op in IDLE: it
\* emits no StartEvent, no ProgressEvent and no EndEvent and the reducer stays
\* idle (also for a record with state RUNNING and progress 100).
C3_RepeatedEndIsNoOp ==
    [][(/\ WasActive /\ SpecEndCondition(upd) /\ Ends(out) = 1
        /\ status' = status)
          => (out' = <<>> /\ ~is_printing')]_vars

----------------------------------------------------------------------------
(* C4 *)

\* C4 as stated: the scenario (RUNNING,5) (RUNNING,50) (RUNNING,99)
\* (FINISHED,100) fed from the initial state displays exactly: started,
\* progress 50, progress 99, ended COMPLETED; nothing for the 5 % record but
\* the start.
C4_ScenarioNoProgressAtStart ==
    /\ n_records = 1 => out = <<StartedMsg>>
    /\ n_records = 2 => out = <<ProgressMsg(50)>>
    /\ n_records = 3 => out = <<ProgressMsg(99)>>
    /\ n_records = 4 => out = <<EndedMsg("COMPLETED")>>

\* C4 (amended): the scenario fed from the initial state displays exactly:
\* started, progress 5, progress 50, progress 99, ended COMPLETED; the record
\* that starts the job also shows its progress, the 100 % record that ends it
\* shows none.
C4_Scenario ==
    /\ n_records = 0 => out = <<>>
    /\ n_records = 1 => out = <<StartedMsg, ProgressMsg(5)>>
    /\ n_records = 2 => out = <<ProgressMsg(50)>>
    /\ n_records = 3 => out = <<ProgressMsg(99)>>
    /\ n_records = 4 => out = <<EndedMsg("COMPLETED")>> /\ ~is_printing

C4_Witness ==
    /\ n_records = Len(Scenario)
    /\ upd.progress = 100 /\ upd.state = "FINISHED"
    /\ out = <<EndedMsg("COMPLETED")>>
    /\ last_progress = 99

----------------------------------------------------------------------------
(* C5 *)

\* C5: from idle a record yields a StartEvent exactly when its state is
\* RUNNING and its progress is above 0; then exactly one StartEvent is emitted
\* and the session becomes active; the identical record fed again (progress
\* below 100) yields no further StartEvent.
C5_StartExactlyWhenRunning ==
    [][/\ ~is_printing =>
            /\ (Starts(out') >= 1) <=>
                   (Canonical(upd'.state) = "RUNNING" /\ upd'.progress > 0)
            /\ Starts(out') >= 1 => (Starts(out') = 1 /\ is_printing')
       /\ (/\ WasIdle /\ Starts(out) = 1 /\ upd.progress < 100
           /\ status' = status)
              => (Starts(out') = 0 /\ is_printing')]_vars

C5_Witness ==
    /\ n_records = 2 /\ pre.is_printing /\ is_printing
    /\ Canonical(upd.state) = "RUNNING"
    /\ upd.progress = 50 /\ pre.last_progress = 50
    /\ out = <<>>

----------------------------------------------------------------------------
(* C6 *)

\* C6: the progress the reducer works with is clamped into 0..100, so the
\* remembered last_progress and the percent of every ProgressEvent lie in
\* 0..100.
C6_ProgressClamped ==
    /\ upd.progress \in 0..100
    /\ last_progress \in 0..100
    /\ \A i \in 1..Len(out) : IsProgress(out[i]) => out[i].percent \in 0..100

----------------------------------------------------------------------------
(* C7, C8: the filament resolver *)

\* the direct filament/material field of the last record ("" when none)
DirectField ==
    safe_get_string(status.data, <<"filament_type", "material", "filament">>, "")

\* a magazine structure came with the last record
MagazineGiven == status.ams.kind = "map"

\* its active-slot index; an absent index is treated as 0
ActiveSlot ==
    IF status.ams.tray_now.t = "absent" THEN Str("0") ELSE status.ams.tray_now

BankOf(i) == i \div 4
SlotOf(i) == i % 4

\* the active-slot index is numeric and addresses an existing slot of an
\* existing bank
InBounds ==
    /\ IntOk(ActiveSlot)
    /\ LET i == Int_(ActiveSlot)
       IN  /\ i >= 0
           /\ BankOf(i) \in 0..(Len(status.ams.ams) - 1)
           /\ SlotOf(i) \in 0..(Len(status.ams.ams[BankOf(i) + 1].tray) - 1)

\* the declared type of the addressed slot ("Unknown" when it declares none)
DeclaredType ==
    LET i    == Int_(ActiveSlot)
        slot == status.ams.ams[BankOf(i) + 1].tray[SlotOf(i) + 1]
    IN  IF slot.has_type THEN slot.tray_type ELSE "Unknown"

\* C7: with no direct filament field and a magazine given, every active-slot
\* index that is non-numeric or out of bounds (negative ones included)
\* resolves to "Unknown".
C7_MalformedIndexIsUnknown ==
    (n_records > 0 /\ DirectField = "" /\ MagazineGiven /\ ~InBounds)
        => upd.filament_type = "Unknown"

\* C8: a non-empty direct field wins; otherwise an in-bounds active-slot
\* index i resolves to the declared type of slot (i mod 4) of bank (i div 4);
\* otherwise the result is "Unknown".
C8_ResolutionPriority ==
    n_records > 0 =>
        upd.filament_type =
            IF DirectField # "" THEN DirectField
            ELSE IF MagazineGiven /\ InBounds THEN DeclaredType
            ELSE "Unknown"

----------------------------------------------------------------------------
(* C9 *)

\* the filament type of the row the last record appended to the Excel file
LoggedFilament == excel[Len(excel)].filament_type

\* C9: while a session is active, a known filament type is never changed by a
\* record whose filament is undetermined ("Unknown" or an empty declared
\* type); it is only overwritten by another known type, and the CompletedJob
\* carries the known type.
C9_KnownFilamentKept ==
    /\ (WasActive /\ is_printing /\ Known(pre.current_filament_type))
           => /\ Known(current_filament_type)
              /\ ~Known(upd.filament_type)
                     => current_filament_type = pre.current_filament_type
    /\ (WasActive /\ Ends(out) = 1 /\ Known(pre.current_filament_type)
        /\ Len(excel) = Len(pre.excel) + 1)
           => LoggedFilament = pre.current_filament_type

----------------------------------------------------------------------------
(* C10 *)

\* C10 as stated: while a session is active a ProgressEvent is emitted only
\* for a progress that differs from the previously observed one, two
\* consecutive records with the same progress yield at most one ProgressEvent,
\* and after any record processed while active last_progress is that record's
\* progress.
C10_LastProgressAlwaysTracks ==
    [][is_printing =>
          /\ Progresses(out') <= 1
          /\ Progresses(out') = 1 =>
                 (upd'.progress # last_progress /\ upd.progress = last_progress)
          /\ upd'.progress = upd.progress => Progresses(out) + Progresses(out') <= 1
          /\ last_progress' = upd'.progress]_vars

\* C10 (amended): as stated, except that last_progress equals the record's
\* progress after every record that leaves the session active; the record
\* that ends the session emits no ProgressEvent and leaves last_progress as
\* it was.
C10_ProgressDeduplicated ==
    [][is_printing =>
          /\ Progresses(out') <= 1
          /\ Progresses(out') = 1 =>
                 (upd'.progress # last_progress /\ upd.progress = last_progress)
          /\ upd'.progress = upd.progress => Progresses(out) + Progresses(out') <= 1
          /\ is_printing' =>
                 /\ last_progress' = upd'.progress
                 /\ Progresses(out') = 1 <=> upd'.progress # last_progress
          /\ ~is_printing' =>
                 (last_progress' = last_progress /\ Progresses(out') = 0)]_vars

C10_Witness ==
    /\ WasActive /\ ~is_printing /\ Ends(out) = 1
    /\ last_progress = pre.last_progress
    /\ last_progress = 50 /\ upd.progress = 100

----------------------------------------------------------------------------
(* C11 *)

\* C11: while a session is active, a record whose state string is outside the
\* known vocabulary (UNKNOWN: empty, missing or unrecognised) and whose
\* progress is below 100 does not end the job: no end is displayed, no
\* PrintLog is built, and the session stays active with its start time and
\* its file name unchanged.
C11_UnknownDoesNotEnd ==
    [][(/\ is_printing
        /\ n_records' = n_records + 1
        /\ Canonical(upd'.state) = "UNKNOWN"
        /\ upd'.progress < 100)
       => (/\ Ends(out') = 0
           /\ jobs' = jobs
           /\ is_printing'
           /\ print_start_time'.some
           /\ print_start_time' = print_start_time
           /\ current_gcode_file' = current_gcode_file)]_vars

\* an unrecognised state at less than 100 % arrived during a session
C11_Witness ==
    /\ WasActive
    /\ upd.state = "PREPARE"
    /\ upd.progress < 100
    /\ is_printing

----------------------------------------------------------------------------
(* C12 *)

\* the end shown by the last call
EndShown == SelectSeq(out, IsEnd)[1]

\* C12: starts and ends alternate strictly, beginning with a start: the
\* number of starts exceeds the number of ends by 0 or 1 (by 1 exactly while
\* a session is active); an end is shown and a PrintLog built only when a
\* session is active with a recorded start time, and a start is never shown
\* while a session is active.
C12_StrictAlternation ==
    [][/\ n_started' - Len(jobs') \in {0, 1}
       /\ (n_started' - Len(jobs') = 1) <=> is_printing'
       /\ n_records' = n_records + 1 =>
              /\ n_started' = n_started + Starts(out')
              /\ Len(jobs') = Len(jobs) + Ends(out')
              /\ Starts(out') >= 1 => ~is_printing /\ n_started = Len(jobs)
              /\ Ends(out') >= 1 => /\ is_printing
                                    /\ print_start_time.some
                                    /\ n_started = Len(jobs) + 1]_vars

\* a second session was started after the first one ended
C12_Witness == n_started = 2 /\ Len(jobs) = 1 /\ is_printing

----------------------------------------------------------------------------
(* C13 *)

\* C13: an end is classified FAILED exactly when the state of the record that
\* triggers it is FAILED or STOPPED, and COMPLETED otherwise; the notes of
\* the PrintLog are "FAILED PRINT" exactly when it is FAILED, and empty
\* otherwise.
C13_FailedExactlyOnFailedOrStopped ==
    Ends(out) = 1 =>
        LET failed == Canonical(upd.state) \in {"FAILED", "STOPPED"}
        IN  /\ EndShown.status_text = (IF failed THEN "FAILED" ELSE "COMPLETED")
            /\ jobs[Len(jobs)].notes = (IF failed THEN "FAILED PRINT" ELSE "")

\* a STOPPED record ended a session
C13_Witness ==
    /\ Ends(out) = 1
    /\ upd.state = "STOPPED"
    /\ jobs[Len(jobs)].notes = "FAILED PRINT"

----------------------------------------------------------------------------
(* C14 *)

\* the seconds between the start and the end of a PrintLog
Span(job) == job.end_time - job.start_time

\* the estimate of a PrintLog is ten grams per hour of its duration
TenGramsPerHour(job) ==
    60 * job.filament_used_grams.num =
        10 * job.duration_minutes * job.filament_used_grams.den

Abs(n) == IF n >= 0 THEN n ELSE -n

\* C14: for every finished session the duration in minutes is the floor of
\* the seconds between start and end divided by 60, and the estimate is
\* duration * 10 / 60 grams; a session of exactly 90 seconds has a duration
\* of 1 minute, and an end not earlier than the start gives a non-negative
\* duration.
C14_DurationIsFloor ==
    \A i \in 1..Len(jobs) :
        /\ jobs[i].duration_minutes = Span(jobs[i]) \div 60
        /\ TenGramsPerHour(jobs[i])
        /\ Span(jobs[i]) = 90 => jobs[i].duration_minutes = 1
        /\ Span(jobs[i]) >= 0 => jobs[i].duration_minutes >= 0

\* C14, amended: the duration in minutes is the seconds between start and end
\* divided by 60 and truncated toward zero, which is the floor (and
\* non-negative) whenever the end is not earlier than the start; the estimate
\* is duration * 10 / 60 grams, and a session of exactly 90 seconds has a
\* duration of 1 minute.
C14_DurationTruncates ==
    \A i \in 1..Len(jobs) :
        /\ 60 * Abs(jobs[i].duration_minutes) <= Abs(Span(jobs[i]))
        /\ Abs(Span(jobs[i])) < 60 * Abs(jobs[i].duration_minutes) + 60
        /\ Span(jobs[i]) >= 0 => /\ jobs[i].duration_minutes >= 0
                                 /\ jobs[i].duration_minutes = Span(jobs[i]) \div 60
        /\ Span(jobs[i]) <= 0 => jobs[i].duration_minutes <= 0
        /\ TenGramsPerHour(jobs[i])
        /\ Span(jobs[i]) = 90 => jobs[i].duration_minutes = 1

\* one session lasted exactly 90 seconds, another ended on a clock reading
\* earlier than its start
C14_Witness ==
    /\ \E i \in 1..Len(jobs) : Span(jobs[i]) = 90 /\ jobs[i].duration_minutes = 1
    /\ \E i \in 1..Len(jobs) : Span(jobs[i]) < 0

----------------------------------------------------------------------------
(* C15 *)

\* the PrintLogs of the earlier run and of this one
CompletedJobs == InitialLog \o jobs

\* C15: the displayed summary is a fold over the completed jobs: its count is
\* the number of PrintLogs built and its total of minutes is the sum of their
\* durations.
C15_SummaryFoldsCompletedJobs ==
    summary.shown =>
        /\ summary.total_prints = Len(CompletedJobs)
        /\ summary.total_minutes = SumMinutes(CompletedJobs)

----------------------------------------------------------------------------
(* C18 *)

\* C18: the Excel file gains exactly one row per end and loses none, whether
\* or not it could be read when a row was saved: every earlier row is still
\* there, each PrintLog was appended as the last row, and the number of rows
\* is the initial number plus the number of ends.
C18_OneRowPerEndNoneLost ==
    /\ Len(excel) = Len(InitialLog) + Len(jobs)
    /\ excel = InitialLog \o jobs

----------------------------------------------------------------------------
(* C16 *)

\* the candidate can be taken as a number / as a string
UsableNumber(data, key) == key \in DOMAIN data /\ data[key].t \in {"num", "str"}
                           /\ (data[key].t = "str" => data[key].s # "x")
UsableString(data, key) == key \in DOMAIN data /\ data[key].t = "str"
                           /\ data[key].s # ""

\* the progress and the state that the last record should have given: the
\* first usable candidate, or the default
ExpectedProgress(data) ==
    IF UsableNumber(data, "mc_percent") THEN 50
    ELSE IF UsableNumber(data, "progress") THEN 50 ELSE 0
ExpectedState(data) ==
    IF UsableString(data, "gcode_state") THEN data["gcode_state"].s
    ELSE IF UsableString(data, "state") THEN data["state"].s ELSE ""

\* C16: extraction is total: for every raw snapshot (keys missing, values
\* null or non-numeric, fields nested under 'print' or not, a 'print' or an
\* 'ams' entry that is no mapping) extracting and processing raises nothing;
\* each field is the first candidate that is present and can be coerced, a
\* candidate whose coercion fails being skipped, and the default otherwise.
C16_ExtractionIsTotal ==
    n_records > 0 =>
        /\ ~raised
        /\ upd.progress = ExpectedProgress(status.data)
        /\ upd.state = ExpectedState(status.data)
        /\ status.ams.kind # "map" => upd.filament_type = "Unknown"

----------------------------------------------------------------------------
(* C17 *)

\* C17: the loop stops once 10 polls in a row have failed, whether they
\* fetched no status or raised while it was processed; it never goes on with
\* the counter at 10 or more, and a poll that fetches and processes a status
\* resets the counter to 0.
C17_StopsAfterTenFailures ==
    /\ pc = "monitoring" => consecutive_errors < max_errors
    /\ pc = "monitoring" => failed_run < max_errors
    /\ (n_polls > 0 /\ StatusTruthy(fetched) /\ ~raised) =>
           consecutive_errors = 0 /\ failed_run = 0

----------------------------------------------------------------------------
(* C20 *)

\* C20: every snapshot that was fetched and decoded is handed to the reducer:
\* a decoded snapshot without usable fields, the empty mapping included, is
\* processed as a record of defaults, and is not counted as a failed poll.
C20_DecodedSnapshotIsProcessed ==
    (n_polls > 0 /\ fetched # <<>>) =>
        /\ status = fetched[1]
        /\ ~raised => /\ upd = Locals(fetched[1])
                      /\ consecutive_errors = 0
                      /\ failed_run = 0

----------------------------------------------------------------------------
(* C19 *)

\* what the claim compares of a PrintLog
Timing(job) == <<job.start_time, job.end_time, job.duration_minutes,
                 job.filament_used_grams>>

\* C19: the printer-reported start time is informational only: two runs fed
\* the same records at the same wall-clock readings, differing only in the
\* printer-reported start times, display the same events and build PrintLogs
\* with the same start time, end time, duration and estimated grams.
C19_StartEpochIsInformational ==
    /\ twin.shown = out
    /\ twin.self.is_printing = is_printing
    /\ Len(twin.jobs) = Len(jobs)
    /\ \A i \in 1..Len(jobs) : Timing(twin.jobs[i]) = Timing(jobs[i])

\* a job was completed in two runs whose start records reported different
\* start times
C19_Witness ==
    /\ Len(jobs) = 1
    /\ ~is_printing
    /\ twin.self.print_start_gcode_time # print_start_gcode_time

----------------------------------------------------------------------------
(* C21 *)

\* C21: no record gives both a start and an end: a record that starts a
\* session from idle does not end it in the same call, even when it meets
\* the end condition as well (RUNNING at 100 %); the start and the end of a
\* job come from two different records, the end at the earliest from the
\* record after the start.
C21_StartAndEndOnDistinctRecords ==
    /\ Starts(out) + Ends(out) <= 1
    /\ Starts(out) = 1 => is_printing /\ n_started = Len(jobs) + 1
    /\ \A i \in 1..Len(jobs) :
           jobs[i].end_time >= jobs[i].start_time + poll_interval

\* a record that meets the start and the end condition arrived in idle, and
\* started a session
C21_Witness ==
    /\ WasIdle
    /\ upd.state = "RUNNING"
    /\ upd.progress >= 100
    /\ Starts(out) = 1
    /\ is_printing

----------------------------------------------------------------------------
(* C23 *)

\* the PrintLog built by the last call
LastJob == jobs[Len(jobs)]

\* C23: the record that ends a session has its temperatures stored before
\* the job is finalized and its filament reading applied after: the PrintLog
\* has the bed and nozzle temperatures of the end record, and the filament
\* type held before the end record, whatever filament the end record reads.
C23_FinalizeBetweenTemperaturesAndFilament ==
    Ends(out) = 1 =>
        /\ LastJob.bed_temp = upd.bed_temp
        /\ LastJob.nozzle_temp = upd.nozzle_temp
        /\ LastJob.filament_type = (IF pre.current_filament_type # ""
                                    THEN pre.current_filament_type ELSE "Unknown")

\* the end record read a filament other than the one held, and temperatures
\* other than 0
C23_Witness ==
    /\ Ends(out) = 1
    /\ upd.filament_type = "PLA"
    /\ pre.current_filament_type = "Unknown"
    /\ LastJob.filament_type = "Unknown"
    /\ LastJob.bed_temp = 600

----------------------------------------------------------------------------
(* C22 *)

\* C22: a row is written only by an end: when the polling loop stops, by ten
\* failed polls in a row or by an interrupt, while a session is active, no
\* end is displayed and no PrintLog is built or written for that session,
\* and the session is left active with its start time.
C22_StopWritesNoRow ==
    [][(pc = "monitoring" /\ pc' = "done") =>
          /\ out' = out
          /\ jobs' = jobs
          /\ excel' = excel
          /\ is_printing' = is_printing
          /\ print_start_time' = print_start_time
          /\ is_printing => n_started' = Len(jobs') + 1]_vars

\* the loop stopped on the tenth failed poll while a session was active
C22_Witness ==
    /\ pc = "done"
    /\ consecutive_errors = max_errors
    /\ is_printing
    /\ n_started = 1
    /\ excel = <<>>

====
